---------------------------- MODULE Spec2Model ----------------------------
(***************************************************************************)
(* Model of src/datasets/nlp/imdb/imdb.py: the IMDB reviews dataset         *)
(* builder.  Strings and byte strings are sequences of one-character       *)
(* strings, so that path joining, the regular expression built from the    *)
(* split directory, matching and whitespace stripping are computed the way *)
(* the program computes them.  Paths use the POSIX separator.               *)
(***************************************************************************)
EXTENDS Integers, Sequences, FiniteSets, TLC

VARIABLES
    config,       \* name of the selected BUILDER_CONFIGS entry
    archiveFile,  \* the tar archive behind _DOWNLOAD_URL: entries in archive order
    dl,           \* the dl_manager of the current build: requested URLs, handles
    phase,        \* "new" | "declared" | "failed": outcome of _split_generators
    splits,       \* the SplitGenerator list returned by _split_generators
    vocab,        \* the generator handed to maybe_build_from_corpus, and its corpus
    gen,          \* the generator of the latest _generate_examples call of the caller
    first,        \* per split: result of the first pass over its gen_kwargs
    prev          \* the same, for the build before the current one

vars == <<config, archiveFile, dl, phase, splits, vocab, gen, first, prev>>

(***************************************************************************)
(* Bounds.                                                                 *)
(***************************************************************************)
MaxArchive == 2      \* number of entries of the archive

(***************************************************************************)
(* String constants of the program.                                        *)
(***************************************************************************)
Sep == "/"
ACLIMDB == <<"a","c","l","I","m","d","b">>
TRAIN == <<"t","r","a","i","n">>
TEST == <<"t","e","s","t">>
NEG == <<"n","e","g">>
POS == <<"p","o","s">>
UNSUP == <<"u","n","s","u","p">>
LABEL == <<"l","a","b","e","l">>
LabeledRegPath == <<"(","?","P","<","l","a","b","e","l",">","n","e","g","|","p","o","s",")">>
DOWNLOAD_URL == "http://ai.stanford.edu/~amaas/data/sentiment/aclImdb_v1.tar.gz"
Configs == {"plain_text", "bytes", "subwords8k", "subwords32k"}
SubwordConfigs == {"subwords8k", "subwords32k"}

\* Python values of the "label" field: a str or an int.
PyStr(s) == [type |-> "str", s |-> s, n |-> 0]
PyInt(n) == [type |-> "int", s |-> <<>>, n |-> n]

(***************************************************************************)
(* String helpers (str.startswith, str.endswith, str.replace, str.strip).  *)
(***************************************************************************)
StartsWith(s, p) ==
    /\ Len(p) <= Len(s)
    /\ SubSeq(s, 1, Len(p)) = p

EndsWith(s, p) ==
    /\ Len(p) <= Len(s)
    /\ SubSeq(s, Len(s) - Len(p) + 1, Len(s)) = p

RECURSIVE StrReplace(_, _, _)
StrReplace(s, old, new) ==
    IF s = <<>> THEN <<>>
    ELSE (IF Head(s) = old THEN new ELSE <<Head(s)>>) \o StrReplace(Tail(s), old, new)

\* The bytes that bytes.strip() removes (VT stands for \x0b).
Whitespace == {" ", "\t", "\n", "\r", "\f", "VT"}

RECURSIVE LStrip(_)
LStrip(s) ==
    IF s # <<>> /\ Head(s) \in Whitespace THEN LStrip(Tail(s)) ELSE s

RECURSIVE RStrip(_)
RStrip(s) ==
    IF s # <<>> /\ s[Len(s)] \in Whitespace THEN RStrip(SubSeq(s, 1, Len(s) - 1)) ELSE s

Strip(s) == RStrip(LStrip(s))

(***************************************************************************)
(* os.path.join (posixpath): a part that starts with the separator resets  *)
(* the path; otherwise parts are joined with exactly one separator.        *)
(***************************************************************************)
RECURSIVE JoinFrom(_, _, _)
JoinFrom(path, parts, i) ==
    IF i > Len(parts) THEN path
    ELSE LET b == parts[i]
         IN  JoinFrom(IF StartsWith(b, <<Sep>>) THEN b
                      ELSE IF path = <<>> \/ EndsWith(path, <<Sep>>) THEN path \o b
                      ELSE path \o <<Sep>> \o b,
                      parts, i + 1)

OsPathJoin(parts) == JoinFrom(parts[1], parts, 2)

(***************************************************************************)
(* re.match for the patterns the program compiles: "^", literal            *)
(* characters, backslash escapes and a named group of literal alternatives *)
(* "(?P<name>a|b)" tried left to right with backtracking.  match() anchors  *)
(* at the first character of the string.                                   *)
(***************************************************************************)
NoMatch == [matched |-> FALSE, groups |-> <<>>]

RECURSIVE IndexOf(_, _, _)
IndexOf(s, c, from) ==
    IF from > Len(s) THEN 0
    ELSE IF s[from] = c THEN from
    ELSE IndexOf(s, c, from + 1)

RECURSIVE SplitOn(_, _)
SplitOn(s, c) ==
    LET k == IndexOf(s, c, 1)
    IN  IF k = 0 THEN <<s>>
        ELSE <<SubSeq(s, 1, k - 1)>> \o SplitOn(SubSeq(s, k + 1, Len(s)), c)

RECURSIVE MatchAt(_, _, _, _, _)
RECURSIVE TryAlts(_, _, _, _, _, _, _, _)
MatchAt(pat, i, s, j, groups) ==
    IF i > Len(pat) THEN [matched |-> TRUE, groups |-> groups]
    ELSE IF pat[i] = "^" THEN
        IF j = 1 THEN MatchAt(pat, i + 1, s, j, groups) ELSE NoMatch
    ELSE IF pat[i] = "(" THEN
        LET close == IndexOf(pat, ")", i)
            nameEnd == IndexOf(pat, ">", i)
            name == SubSeq(pat, i + 4, nameEnd - 1)
            alts == SplitOn(SubSeq(pat, nameEnd + 1, close - 1), "|")
        IN  TryAlts(pat, close + 1, s, j, alts, 1, name, groups)
    ELSE IF pat[i] = "\\" THEN
        IF j <= Len(s) /\ s[j] = pat[i + 1]
        THEN MatchAt(pat, i + 2, s, j + 1, groups) ELSE NoMatch
    ELSE
        IF j <= Len(s) /\ s[j] = pat[i]
        THEN MatchAt(pat, i + 1, s, j + 1, groups) ELSE NoMatch

TryAlts(pat, rest, s, j, alts, a, name, groups) ==
    IF a > Len(alts) THEN NoMatch
    ELSE LET alt == alts[a]
             here == SubSeq(s, j, j + Len(alt) - 1) = alt
             tail == IF here
                     THEN MatchAt(pat, rest, s, j + Len(alt),
                                  Append(groups, <<name, alt>>))
                     ELSE NoMatch
         IN  IF tail.matched THEN tail
             ELSE TryAlts(pat, rest, s, j, alts, a + 1, name, groups)

ReMatch(pat, s) == MatchAt(pat, 1, s, 1, <<>>)

\* res.groupdict()[name]
GroupDict(res, name) ==
    LET k == CHOOSE k \in 1..Len(res.groups) : res.groups[k][1] = name
    IN  res.groups[k][2]


(***************************************************************************)
(* The archive.  An entry is a path, its bytes, and whether imdb_f.read()  *)
(* succeeds on it.  Init draws the archive from sequences over this pool.  *)
(***************************************************************************)
File1 == <<"1">>
File2 == <<"2">>
File3 == <<"3">>
TrainDir == ACLIMDB \o <<Sep>> \o TRAIN
TestDir == ACLIMDB \o <<Sep>> \o TEST

Entry(path, content, readable) ==
    [path |-> path, content |-> content, readable |-> readable]

EntryPool ==
    { Entry(TrainDir \o <<Sep>> \o POS \o <<Sep>> \o File1, <<" ", "x", "\n">>, TRUE),
      Entry(TrainDir \o <<Sep>> \o NEG \o <<Sep>> \o File2, <<>>, TRUE),
      Entry(TrainDir \o <<Sep>> \o UNSUP \o <<Sep>> \o File3, <<"x", " ", "x">>, TRUE),
      Entry(TestDir \o <<Sep>> \o POS \o <<Sep>> \o File1, <<"\t", "x", " ">>, TRUE),
      Entry(TestDir \o <<Sep>> \o NEG \o <<Sep>> \o File2, <<" ", "\n">>, TRUE),
      Entry(TestDir \o <<Sep>> \o UNSUP \o <<Sep>> \o File3, <<"x">>, TRUE),
      Entry(<<"x">> \o TrainDir \o <<Sep>> \o POS \o <<Sep>> \o File1, <<"x">>, TRUE),
      Entry(TrainDir \o <<Sep>> \o POS \o <<"x">> \o <<Sep>> \o File1, <<"x">>, TRUE),
      Entry(TrainDir \o <<Sep>> \o UNSUP, <<>>, FALSE),
      Entry(TrainDir \o <<Sep>> \o POS \o <<Sep>> \o File1, <<"x">>, FALSE),
      Entry(TrainDir \o <<Sep>> \o UNSUP \o <<Sep>> \o File3, <<"x">>, FALSE) }

Archives == UNION { [1..n -> EntryPool] : n \in 0..MaxArchive }

(***************************************************************************)
(* _generate_examples: the pattern, and what the loop does with one entry. *)
(***************************************************************************)
RegPath(labeled) == IF labeled THEN LabeledRegPath ELSE UNSUP

RegNoTrailingSep(directory, labeled) ==
    StrReplace(OsPathJoin(<< <<"^">> \o directory, RegPath(labeled) >>),
               "\\", <<"\\", "\\">>)

Reg(directory, labeled) ==
    StrReplace(OsPathJoin(<< <<"^">> \o directory, RegPath(labeled), <<>> >>),
               "\\", <<"\\", "\\">>)

LabelZeroSentinel(res, labeled) ==
    IF labeled THEN PyStr(GroupDict(res, LABEL)) ELSE PyInt(0)

LabelAlwaysSentinel(res, labeled) == PyInt(-1)

ExampleLabel(res, labeled) ==
    IF labeled THEN PyStr(GroupDict(res, LABEL)) ELSE PyInt(-1)

\* imdb_f.read(): the whole content, or an exception.
ReadEntry(e) ==
    [ok |-> e.readable, data |-> IF e.readable THEN e.content ELSE <<>>]

Skip == [kind |-> "skip", item |-> <<>>, read |-> FALSE]

\* One iteration of the loop body, for archive entry e.
OnEntrySwallowErrors(e, directory, labeled) ==
    LET res == ReMatch(Reg(directory, labeled), e.path)
        rd == ReadEntry(e)
    IN  IF ~res.matched THEN Skip
        ELSE IF ~rd.ok THEN [kind |-> "skip", item |-> <<>>, read |-> TRUE]
        ELSE [kind |-> "yield", read |-> TRUE,
              item |-> <<e.path, [text |-> Strip(rd.data),
                                  label |-> ExampleLabel(res, labeled)]>>]

OnEntryDropEmpty(e, directory, labeled) ==
    LET res == ReMatch(Reg(directory, labeled), e.path)
        rd == ReadEntry(e)
    IN  IF ~res.matched THEN Skip
        ELSE IF ~rd.ok THEN [kind |-> "raise", item |-> <<>>, read |-> TRUE]
        ELSE IF Strip(rd.data) = <<>> THEN [kind |-> "skip", item |-> <<>>, read |-> TRUE]
        ELSE [kind |-> "yield", read |-> TRUE,
              item |-> <<e.path, [text |-> Strip(rd.data),
                                  label |-> ExampleLabel(res, labeled)]>>]

OnEntry(e, directory, labeled) ==
    LET res == ReMatch(Reg(directory, labeled), e.path)
        rd == ReadEntry(e)
    IN  IF ~res.matched THEN Skip
        ELSE IF ~rd.ok THEN [kind |-> "raise", item |-> <<>>, read |-> TRUE]
        ELSE [kind |-> "yield", read |-> TRUE,
              item |-> <<e.path, [text |-> Strip(rd.data),
                                  label |-> ExampleLabel(res, labeled)]>>]

(***************************************************************************)
(* One resumption of the generator (one next() of its consumer): the loop  *)
(* runs from archive position pos until it yields, raises, or the archive  *)
(* iterator is exhausted.  The result carries the iterator's new position  *)
(* and the indices of the entries it read.                                 *)
(***************************************************************************)
RECURSIVE Resume(_, _, _)
ResumeBreakOnMismatch(pos, directory, labeled) ==
    IF pos > Len(archiveFile)
    THEN [kind |-> "stop", pos |-> pos, item |-> <<>>, reads |-> <<>>]
    ELSE LET r == OnEntry(archiveFile[pos], directory, labeled)
             rd == IF r.read THEN <<pos>> ELSE <<>>
         IN  IF r.kind = "skip"
             THEN [kind |-> "stop", pos |-> pos + 1, item |-> <<>>, reads |-> rd]
             ELSE [kind |-> r.kind, pos |-> pos + 1, item |-> r.item, reads |-> rd]

Resume(pos, directory, labeled) ==
    IF pos > Len(archiveFile)
    THEN [kind |-> "stop", pos |-> pos, item |-> <<>>, reads |-> <<>>]
    ELSE LET r == OnEntry(archiveFile[pos], directory, labeled)
             rd == IF r.read THEN <<pos>> ELSE <<>>
         IN  IF r.kind = "skip"
             THEN LET later == Resume(pos + 1, directory, labeled)
                  IN  [later EXCEPT !.reads = rd \o @]
             ELSE [kind |-> r.kind, pos |-> pos + 1, item |-> r.item, reads |-> rd]

(***************************************************************************)
(* Generator objects.  A generator of _generate_examples holds its         *)
(* arguments; consumer, startPos, out and reads record who pulls it, where *)
(* its archive iterator stood when it was created, what it has yielded and *)
(* which entries it has read.                                              *)
(***************************************************************************)
NoGen ==
    [consumer |-> "", archive |-> 0, directory |-> <<>>, labeled |-> TRUE,
     startPos |-> 0, out |-> <<>>, reads |-> <<>>, status |-> "none"]

GenerateExamples(consumer, archive, directory, labeled, handles) ==
    [consumer |-> consumer, archive |-> archive, directory |-> directory,
     labeled |-> labeled, startPos |-> handles[archive].pos,
     out |-> <<>>, reads |-> <<>>, status |-> "created"]

Live(g) == g.status \in {"created", "suspended"}

\* The generator after one resumption that ended as step says.
Advance(g, step) ==
    [g EXCEPT !.out = IF step.kind = "yield" THEN Append(@, step.item) ELSE @,
              !.reads = @ \o step.reads,
              !.status = CASE step.kind = "yield" -> "suspended"
                           [] step.kind = "stop" -> "done"
                           [] OTHER -> "raised"]

(***************************************************************************)
(* dl_manager: download(url) records the request; iter_archive(path) gives *)
(* a single-pass iterator over the archive, here its next position and who *)
(* has pulled from it.                                                     *)
(***************************************************************************)
Download(requested, url) == Append(requested, url)

IterArchive == [pos |-> 1, users |-> {}]

\* One next() on generator g: its loop pulls from its archive iterator.
Pull(g, handles) ==
    LET h == handles[g.archive]
        step == Resume(h.pos, g.directory, g.labeled)
    IN  [gen |-> Advance(g, step),
         handles |-> [handles EXCEPT ![g.archive] =
                         [pos |-> step.pos, users |-> h.users \cup {g.consumer}]]]

\* A consumer that iterates g to its end (or to its exception).
RECURSIVE Drain(_, _)
Drain(g, handles) ==
    LET p == Pull(g, handles)
    IN  IF Live(p.gen) THEN Drain(p.gen, p.handles) ELSE p

(***************************************************************************)
(* _vocab_text_gen and Text.maybe_build_from_corpus.                       *)
(***************************************************************************)
VocabTextGenTest(archive, handles) ==
    GenerateExamples("vocab", archive, OsPathJoin(<<ACLIMDB, TEST>>), TRUE, handles)

VocabTextGen(archive, handles) ==
    GenerateExamples("vocab", archive, OsPathJoin(<<ACLIMDB, TRAIN>>), TRUE, handles)

\* for _, ex in ...: yield ex["text"]
VocabTexts(g) == [i \in 1..Len(g.out) |-> g.out[i][2].text]

\* Builds the vocabulary from the corpus generator when the encoder is a
\* SubwordTextEncoder, and returns without touching the generator otherwise.
MaybeBuildFromCorpus(g, handles) ==
    IF config \in SubwordConfigs THEN Drain(g, handles)
    ELSE [gen |-> g, handles |-> handles]

(***************************************************************************)
(* _split_generators.                                                      *)
(***************************************************************************)
\* archive = lambda: dl_manager.iter_archive(arch_path): the call made when
\* n handles exist returns a new one.
ArchiveShared(n) == 1

Archive(n) == n + 1

SplitGenerator(name, gen_kwargs) == [name |-> name, gen_kwargs |-> gen_kwargs]

SplitPlanAllLabeled(a1, a2, a3) ==
    << SplitGenerator("train",
           [archive |-> a1, directory |-> OsPathJoin(<<ACLIMDB, TRAIN>>)]),
       SplitGenerator("test",
           [archive |-> a2, directory |-> OsPathJoin(<<ACLIMDB, TEST>>)]),
       SplitGenerator("unsupervised",
           [archive |-> a3, directory |-> OsPathJoin(<<ACLIMDB, TRAIN>>)]) >>

SplitPlan(a1, a2, a3) ==
    << SplitGenerator("train",
           [archive |-> a1, directory |-> OsPathJoin(<<ACLIMDB, TRAIN>>)]),
       SplitGenerator("test",
           [archive |-> a2, directory |-> OsPathJoin(<<ACLIMDB, TEST>>)]),
       SplitGenerator("unsupervised",
           [archive |-> a3, directory |-> OsPathJoin(<<ACLIMDB, TRAIN>>),
            labeled |-> FALSE]) >>

\* labeled=True is the default of _generate_examples.
KwLabeled(kw) == IF "labeled" \in DOMAIN kw THEN kw.labeled ELSE TRUE

NoResult == [status |-> "none", out |-> <<>>, directory |-> <<>>, labeled |-> TRUE]
NoResults == [s \in 1..3 |-> NoResult]
NoVocab == [gen |-> NoGen, corpus |-> <<>>]

AllFirstPassesDone == \A s \in DOMAIN first : first[s].status # "none"

Init ==
    /\ config \in Configs
    /\ archiveFile \in Archives
    /\ dl = [requested |-> <<>>, handles |-> <<>>]
    /\ phase = "new"
    /\ splits = <<>>
    /\ vocab = NoVocab
    /\ gen = NoGen
    /\ first = NoResults
    /\ prev = NoResults

\* A build: a fresh dl_manager is handed to _split_generators, which
\* downloads, offers the vocabulary corpus and returns the splits.  A build
\* starts when the caller holds no running generator and has generated
\* every split of the build before; the generator of that build is dropped.
SplitGenerators ==
    /\ ~Live(gen)
    /\ phase # "declared" \/ AllFirstPassesDone
    /\ LET requested == Download(<<>>, DOWNLOAD_URL)
           a0 == Archive(0)
           h0 == <<IterArchive>>
           built == MaybeBuildFromCorpus(VocabTextGen(a0, h0), h0)
           a1 == Archive(1)
           a2 == Archive(2)
           a3 == Archive(3)
           h3 == built.handles \o <<IterArchive, IterArchive, IterArchive>>
       IN  /\ vocab' = [gen |-> built.gen, corpus |-> VocabTexts(built.gen)]
           /\ IF built.gen.status = "raised"
              THEN /\ dl' = [requested |-> requested, handles |-> built.handles]
                   /\ phase' = "failed"
                   /\ splits' = <<>>
              ELSE /\ dl' = [requested |-> requested, handles |-> h3]
                   /\ phase' = "declared"
                   /\ splits' = SplitPlan(a1, a2, a3)
    /\ prev' = IF phase = "declared" THEN first ELSE prev
    /\ first' = NoResults
    /\ gen' = NoGen
    /\ UNCHANGED <<config, archiveFile>>

\* The caller invokes _generate_examples(**gen_kwargs) of declared split s.
\* Splits are generated in the order of the list; the caller may run the
\* split it has reached again, with the same gen_kwargs.
StartGenerate(s) ==
    /\ phase = "declared"
    /\ ~Live(gen)
    /\ \A t \in DOMAIN splits : /\ t < s => first[t].status # "none"
                                /\ t > s => first[t].status = "none"
    /\ LET kw == splits[s].gen_kwargs
       IN  gen' = GenerateExamples(splits[s].name, kw.archive, kw.directory,
                                   KwLabeled(kw), dl.handles)
    /\ UNCHANGED <<config, archiveFile, dl, phase, splits, vocab, first, prev>>

\* The caller pulls the next record from the generator.
GenNext ==
    /\ Live(gen)
    /\ LET p == Pull(gen, dl.handles)
           s == CHOOSE s \in DOMAIN splits : splits[s].name = gen.consumer
       IN  /\ gen' = p.gen
           /\ dl' = [dl EXCEPT !.handles = p.handles]
           /\ first' = IF ~Live(p.gen) /\ first[s].status = "none"
                       THEN [first EXCEPT ![s] =
                                [status |-> p.gen.status, out |-> p.gen.out,
                                 directory |-> gen.directory, labeled |-> gen.labeled]]
                       ELSE first
    /\ UNCHANGED <<config, archiveFile, phase, splits, vocab, prev>>

Next ==
    \/ SplitGenerators
    \/ \E s \in DOMAIN splits : StartGenerate(s)
    \/ GenNext

Spec == Init /\ [][Next]_vars

(***************************************************************************)
(* Vocabulary of the properties.  These are stated on paths and contents   *)
(* directly, without the pattern and without strip().                      *)
(***************************************************************************)
\* The generators a state holds.
Gens == { g \in {gen, vocab.gen} : g.status # "none" }

\* Where the archive iterator of generator g stands.
PosOf(g) == dl.handles[g.archive].pos

Segments(labeled) == IF labeled THEN {NEG, POS} ELSE {UNSUP}

\* path lies under <directory>/<seg>/ .
Under(path, directory, seg) ==
    StartsWith(path, directory \o <<Sep>> \o seg \o <<Sep>>)

MatchesSplit(path, directory, labeled) ==
    \E seg \in Segments(labeled) : Under(path, directory, seg)

\* The path segment that follows <directory>/ in path.
SegmentAfter(path, directory) ==
    LET from == Len(directory) + 2
        to == IndexOf(path, Sep, from)
    IN  SubSeq(path, from, to - 1)

\* t is c without its leading and trailing whitespace.
IsStripOf(t, c) ==
    /\ t = <<>> \/ (t[1] \notin Whitespace /\ t[Len(t)] \notin Whitespace)
    /\ \E i \in 0..Len(c) :
          /\ i + Len(t) <= Len(c)
          /\ SubSeq(c, i + 1, i + Len(t)) = t
          /\ \A k \in 1..Len(c) : (k <= i \/ k > i + Len(t)) => c[k] \in Whitespace

\* Indices from..to of the archive whose entry belongs to the split and can
\* be read, in archive order.
RECURSIVE Emitted(_, _, _, _)
Emitted(from, to, directory, labeled) ==
    IF from > to THEN <<>>
    ELSE (IF /\ MatchesSplit(archiveFile[from].path, directory, labeled)
             /\ archiveFile[from].readable
          THEN <<from>> ELSE <<>>) \o Emitted(from + 1, to, directory, labeled)

\* Entries generator g has consumed that end in a record.
EmittedBy(g) == Emitted(g.startPos, PosOf(g) - 1, g.directory, g.labeled)

Count(seq, x) == Cardinality({ k \in 1..Len(seq) : seq[k] = x })

\* C1: every record of a labeled generation carries as label the path
\* segment that follows the directory prefix in its key, "neg" or "pos",
\* and never an integer.
C1_LabelIsPathSegment ==
    \A g \in Gens : g.labeled =>
        /\ g.directory \in {TrainDir, TestDir}
        /\ \A i \in 1..Len(g.out) :
              LET key == g.out[i][1]
                  label == g.out[i][2].label
              IN  /\ label.type = "str"
                  /\ label.s \in {NEG, POS}
                  /\ label.s = SegmentAfter(key, g.directory)
                  /\ Under(key, g.directory, label.s)

C1_Witness ==
    /\ \E i \in 1..Len(first[1].out) : first[1].out[i][2].label = PyStr(POS)
    /\ gen.consumer = "test"
    /\ \E i \in 1..Len(gen.out) : gen.out[i][2].label = PyStr(NEG)

\* C2: every record of the unsupervised generation has label -1 and a key
\* under aclImdb/train/unsup/.
C2_UnsupervisedSentinel ==
    \A g \in Gens : ~g.labeled =>
        /\ g.consumer = "unsupervised"
        /\ g.directory = TrainDir
        /\ \A i \in 1..Len(g.out) :
              /\ g.out[i][2].label = PyInt(-1)
              /\ Under(g.out[i][1], TrainDir, UNSUP)

C2_Witness ==
    /\ gen.consumer = "unsupervised"
    /\ Len(gen.out) >= 1
    /\ \E k \in 1..Len(archiveFile) : Under(archiveFile[k].path, TrainDir, POS)

\* C3: a key is emitted only if it starts with <directory>/<neg|pos>/ for a
\* labeled generation, <directory>/unsup/ otherwise; other entries are
\* skipped without an error: a generator raises only on an entry of its
\* split.
C3_OnlyMatchingPaths ==
    \A g \in Gens :
        /\ \A i \in 1..Len(g.out) : MatchesSplit(g.out[i][1], g.directory, g.labeled)
        /\ g.status = "raised" =>
              MatchesSplit(archiveFile[PosOf(g) - 1].path, g.directory, g.labeled)

C3_Witness ==
    /\ gen.consumer = "train"
    /\ gen.status = "done"
    /\ gen.startPos = 1
    /\ Len(archiveFile) = 2
    /\ archiveFile[1].path = TrainDir \o <<Sep>> \o POS \o <<"x">> \o <<Sep>> \o File1
    /\ Len(gen.out) = 1

\* C4: the output of a generation is, in archive order, one record per
\* consumed entry of the split: the key is the entry's path, the text its
\* content without leading and trailing whitespace, also when that is
\* empty; only entries of the split are read.
C4_OutputIsMatchingSubsequence ==
    \A g \in Gens :
        LET idx == EmittedBy(g)
        IN  /\ Len(g.out) = Len(idx)
            /\ \A k \in 1..Len(idx) :
                  /\ g.out[k][1] = archiveFile[idx[k]].path
                  /\ IsStripOf(g.out[k][2].text, archiveFile[idx[k]].content)
            /\ \A k \in 1..Len(g.reads) :
                  MatchesSplit(archiveFile[g.reads[k]].path, g.directory, g.labeled)
            /\ g.status = "done" => PosOf(g) = Len(archiveFile) + 1

C4_Witness ==
    /\ gen.consumer = "test"
    /\ gen.status = "done"
    /\ gen.startPos = 1
    /\ Len(archiveFile) = 2
    /\ ~MatchesSplit(archiveFile[1].path, gen.directory, gen.labeled)
    /\ archiveFile[2].content = <<" ", "\n">>
    /\ Len(gen.out) = 1
    /\ gen.out[1][2].text = <<>>

\* The finished first passes a state records.
Results ==
    { r \in { first[s] : s \in DOMAIN first } \cup { prev[s] : s \in DOMAIN prev }
            \cup { [status |-> vocab.gen.status, out |-> vocab.gen.out,
                    directory |-> vocab.gen.directory, labeled |-> vocab.gen.labeled] } :
        r.status \in {"done", "raised"} }

C6_ThreeFixedSplits ==
    phase = "declared" =>
        /\ Len(splits) = 3
        /\ <<splits[1].name, splits[2].name, splits[3].name>>
              = <<"train", "test", "unsupervised">>
        /\ <<splits[1].gen_kwargs.directory, splits[2].gen_kwargs.directory,
             splits[3].gen_kwargs.directory>> = <<TrainDir, TestDir, TrainDir>>
        /\ <<KwLabeled(splits[1].gen_kwargs), KwLabeled(splits[2].gen_kwargs),
             KwLabeled(splits[3].gen_kwargs)>> = <<TRUE, TRUE, FALSE>>

C6_Witness ==
    /\ phase = "declared"
    /\ config = "subwords32k"
    /\ gen.consumer = "unsupervised"
    /\ ~gen.labeled

\* Handles some consumer has pulled from, and the one consumer each handle
\* of a build is obtained for.
IteratedHandles == { h \in DOMAIN dl.handles : dl.handles[h].users # {} }

OwnerOf(h) == IF h = 1 THEN "vocab" ELSE splits[h - 1].name

OneDownloadOwnHandles ==
    /\ phase # "new" => dl.requested = <<DOWNLOAD_URL>>
    /\ phase = "declared" =>
          /\ \A s, t \in DOMAIN splits :
                s # t => splits[s].gen_kwargs.archive # splits[t].gen_kwargs.archive
          /\ \A s \in DOMAIN splits :
                LET h == splits[s].gen_kwargs.archive
                IN  /\ h # vocab.gen.archive
                    /\ dl.handles[h].users \subseteq {splits[s].name}
                    /\ first[s].status # "none" => h \in IteratedHandles

\* C7 as stated: one download, and three archive-iteration passes, one per
\* split, each over a handle of its own.
C7_ThreePasses ==
    /\ OneDownloadOwnHandles
    /\ Cardinality(IteratedHandles) <= 3

\* Handles a build iterates once every consumer has made its pass.
PassesOfBuild == IF config \in SubwordConfigs THEN 4 ELSE 3

\* C7, amended: one download; each split iterates a handle of its own; with
\* a subword configuration the vocabulary pass iterates one more handle,
\* which no split uses, so that a build iterates three handles with
\* plain_text or bytes and four with subwords8k or subwords32k.
C7_OneDownloadPassPerConsumer ==
    /\ OneDownloadOwnHandles
    /\ \A h \in DOMAIN dl.handles : dl.handles[h].users \subseteq {OwnerOf(h)}
    /\ Cardinality(IteratedHandles) <= PassesOfBuild
    /\ (phase = "declared" /\ AllFirstPassesDone) =>
          Cardinality(IteratedHandles) = PassesOfBuild

C7_Witness ==
    /\ phase = "declared"
    /\ AllFirstPassesDone
    /\ config = "subwords8k"
    /\ Cardinality(IteratedHandles) = 4
    /\ \A s \in DOMAIN first : Len(first[s].out) >= 1 \/ s = 1

\* C8: with plain_text or bytes the vocabulary generator is never pulled
\* and nothing is read for it; with a subword configuration it is iterated
\* to its end, over the first handle of the build and before any split is
\* declared, and the corpus is the stripped content of the entries under
\* aclImdb/train/neg/ and aclImdb/train/pos/, in archive order.
C8_VocabPass ==
    /\ vocab.gen.status # "none" =>
          /\ vocab.gen.consumer = "vocab"
          /\ vocab.gen.archive = 1
          /\ vocab.gen.startPos = 1
    /\ config \notin SubwordConfigs =>
          /\ vocab.gen.status \in {"none", "created"}
          /\ vocab.gen.reads = <<>>
          /\ vocab.corpus = <<>>
          /\ phase # "new" => dl.handles[1] = IterArchive
    /\ (config \in SubwordConfigs /\ phase # "new") =>
          /\ vocab.gen.status \in {"done", "raised"}
          /\ dl.handles[1].users = {"vocab"}
          /\ vocab.gen.status = "raised" <=> phase = "failed"
          /\ phase = "failed" => splits = <<>>
          /\ LET idx == Emitted(1, dl.handles[1].pos - 1, TrainDir, TRUE)
             IN  /\ Len(vocab.corpus) = Len(idx)
                 /\ \A k \in 1..Len(idx) :
                       IsStripOf(vocab.corpus[k], archiveFile[idx[k]].content)
          /\ phase = "declared" => dl.handles[1].pos = Len(archiveFile) + 1

C8_Witness ==
    /\ config = "subwords8k"
    /\ phase = "declared"
    /\ Len(archiveFile) = 2
    /\ Len(vocab.corpus) = 1
    /\ Under(archiveFile[1].path, TrainDir, UNSUP)
    /\ Under(archiveFile[2].path, TrainDir, POS)

\* What holds of a generator g and its archive iterator at every moment.
FinitePass(g) ==
    /\ g.startPos <= PosOf(g)
    /\ PosOf(g) <= Len(archiveFile) + 1
    /\ Len(g.out) <= PosOf(g) - g.startPos
    /\ \A k \in 1..Len(g.reads) :
          /\ g.reads[k] \in g.startPos..(PosOf(g) - 1)
          /\ Count(g.reads, g.reads[k]) = 1
    /\ g.status = "done" => PosOf(g) = Len(archiveFile) + 1
    /\ g.startPos = Len(archiveFile) + 1 => g.out = <<>>

\* C9: a generation consumes the entries of its archive iterator one after
\* the other, each once, emits at most one record per consumed entry and is
\* done when the iterator is exhausted; a generation that starts on an
\* exhausted iterator emits nothing.  Every resumption either ends the
\* generation or moves the iterator forward.
C9_FiniteSinglePass ==
    /\ [](\A g \in Gens : FinitePass(g))
    /\ [][(Live(gen) /\ gen' # gen) => (~Live(gen') \/ PosOf(gen)' > PosOf(gen))]_vars

C9_Witness ==
    /\ gen.consumer = "train"
    /\ gen.status = "done"
    /\ gen.startPos = Len(archiveFile) + 1
    /\ Len(first[1].out) = 2

\* A read that fails is the last thing generator g does.
FailsFatally(g) ==
    /\ \A k \in 1..Len(g.reads) :
          ~archiveFile[g.reads[k]].readable =>
              /\ g.status = "raised"
              /\ k = Len(g.reads)
    /\ g.status = "raised" =>
          /\ g.reads # <<>>
          /\ LET e == g.reads[Len(g.reads)]
             IN  /\ ~archiveFile[e].readable
                 /\ Count(g.reads, e) = 1
                 /\ PosOf(g) = e + 1
                 /\ Len(g.out) = Len(Emitted(g.startPos, e - 1, g.directory, g.labeled))
                 /\ \A i \in 1..Len(g.out) : g.out[i][1] # archiveFile[e].path
                       \/ \E k \in g.startPos..(e - 1) : archiveFile[k].path = g.out[i][1]

\* C10: a failing read ends the generation with the error: the entry is not
\* skipped and is read once, the output holds the records of the entries
\* before it only, and the generator never yields again; a failure of the
\* vocabulary pass fails _split_generators.
C10_ReadFailureIsFatal ==
    /\ [](/\ \A g \in Gens : FailsFatally(g)
          /\ vocab.gen.status = "raised" => (phase = "failed" /\ splits = <<>>))
    /\ [][(gen.status = "raised" /\ gen'.status \notin {"created", "none"})
            => gen' = gen]_vars

C10_Witness ==
    /\ gen.consumer = "unsupervised"
    /\ gen.status = "raised"
    /\ Len(archiveFile) = 2
    /\ PosOf(gen) = 2
    /\ gen.out = <<>>
    /\ MatchesSplit(archiveFile[2].path, gen.directory, gen.labeled)
    /\ archiveFile[2].readable

=============================================================================
